---- MODULE Spec2Model ----
(***************************************************************************)
(* The client-side delivery pipeline of the screenshot tool: the local     *)
(* spool (LocalImageStorage), the upload path with retries, the drain of   *)
(* spooled images and the retention sweep.                                 *)
(*                                                                         *)
(* The repository holds the pipeline twice:                                *)
(*   variant "script"  : src/client.py (job_once, send_screenshot,         *)
(*                       upload_local_images, run_client)                  *)
(*   variant "package" : src/src/screenshot_tool/core/client.py            *)
(*                       (ScreenshotClient) with utils/file_utils.py       *)
(* Both are modelled; the variant is fixed when the process starts.        *)
(*                                                                         *)
(* A spooled file is a record [ts, mtime]: ts is the capture timestamp in  *)
(* its name (the file's identity), mtime the clock value when it was       *)
(* written.  The clock is an integer; one unit stands for one hour.        *)
(*                                                                         *)
(* Environment: an HTTP request may come to any response, a write to the   *)
(* spool may fail, the order of a directory listing is the OS's choice.    *)
(* In the driver model deleting a spool file that exists succeeds: the     *)
(* directory belongs to the pipeline alone.                                *)
(*                                                                         *)
(* Specifications:                                                         *)
(*   Spec          the driver: capture cycles, drain passes, sweeps        *)
(*   LiveSpec      the driver with a server that recovers for good, and    *)
(*                 fairness of the loop                                    *)
(*   StopSpec      the driver with the stop signal                         *)
(*   TimerSpec     the schedule of the loop (due check, sleep)             *)
(*   StoreSpec     LocalImageStorage called from two threads, with its     *)
(*                 lock; FairStoreSpec adds fairness of the threads        *)
(*   NameSpec      the name of a spool file: how save_image writes it and  *)
(*                 how upload_local_images reads it back                   *)
(*   DrainSpec     the driver while another thread of the process puts    *)
(*                 and removes spool files during a drain pass             *)
(*   GuiSpec       the window that starts and stops the driver in a worker *)
(*                 thread (src/client_gui.py, and gui/client_gui.py of the *)
(*                 package); FairGuiSpec adds fairness of the threads      *)
(***************************************************************************)
EXTENDS Integers, Sequences, FiniteSets, TLC

\* Bounds of the model.
PrevFiles == 2          \* files a previous session may have left in the spool
MaxTicks == 3           \* clock steps explored after start
MaxFilesCfg == 3        \* max_local_files ranges over 1..MaxFilesCfg
MaxRetriesCfg == 2      \* max_retries ranges over 0..MaxRetriesCfg
MaxRetentionCfg == 2    \* local_file_retention_hours ranges over 1..MaxRetentionCfg
MaxInterval == 3        \* interval_seconds ranges over 1..MaxInterval sleep periods
MaxJobTime == 2         \* a capture cycle takes 0..MaxJobTime sleep periods
MaxClock == 8           \* loop turns begin while the loop's clock is below MaxClock
MaxStampLen == 2        \* a timestamp string has 1..MaxStampLen characters
MaxSourceLen == 3       \* a source string has 1..MaxSourceLen characters
MaxWorkers == 3         \* worker threads the window starts, one after another
MaxCalls == 1           \* store calls of the other thread during the driver's drains

VARIABLES
    variant,            \* "script" | "package"; in the timing model also "gui"
    max_files,          \* config.max_local_files
    max_retries,        \* config.max_retries
    retention_hours,    \* config.local_file_retention_hours
    save_local_copy,    \* config.save_local_copy
    now,                \* the clock
    spool,              \* the files of the storage directory
    spool0,             \* the files found at start (left by a previous session)
    pc,                 \* position of the driver loop
    initial,            \* TRUE until the first (immediate) capture cycle is over
    caller,             \* who started the running drain pass: "start" | "job" | "sweep"
    timestamp,          \* capture timestamp of the cycle's image
    pending,            \* the drain pass's snapshot (result of the listing)
    idx,                \* index into pending of the next file to upload
    attempt,            \* send_screenshot's loop variable
    posts,              \* the HTTP POSTs made since the cycle (or sweep) began
    outcome,            \* how the capture cycle that just returned ended
    local_copy,         \* the cycle's local copy: "none" | "written" | "failed"
    probe,              \* the connectivity probe the last step made, if it made one
    last,               \* the last completed mutating store operation
    offline,            \* cycles: the capture timestamps of the cycles so far, as
                        \* long as each found the server unreachable and spooled
                        \* its image and no sweep removed a file; open: no drain
                        \* pass has begun since.  Broken from then on
    interval_seconds,   \* config.interval_seconds, in sleep periods of the loop
    clock,              \* time.time(), in sleep periods of the loop
    start_time,         \* the time the schedule starts from
    last_execution_time,\* the loop's last_execution_time
    fired,              \* captures the loop has fired after the initial one
    tpc,                \* position of the loop in the timing model: "off" | "first" | "loop"
    collector,          \* the server: "any" (it may fail in every way) | "good" (from
                        \* now on it is reachable and accepts every upload)
    shutdown_requested, \* the stop signal: shutdown_requested of src/client.py,
                        \* _stop_event and not is_running of ScreenshotClient
    stopped_at,         \* the clock and the number of POSTs when the signal was set
    lock,               \* LocalImageStorage.lock of src/client.py: its holder, or "none"
    thr,                \* the store model: for each thread, the store operation it
                        \* is in (op, arg), how far it is (step) and what its last
                        \* operation returned (result)
    put_args,           \* the name model: timestamp and source as passed to save_image
    filename,           \* the name of the file save_image wrote
    data,               \* timestamp and source as upload_local_images sends them
    npc,                \* position in the name model: "off" | "put" | "written" | "sent"
    is_running,         \* ClientGUI.is_running
    start_button,       \* state of ClientGUI.start_button: "normal" | "disabled"
    stop_button,        \* state of ClientGUI.stop_button
    client,             \* ClientGUI.client of the package: the worker whose
                        \* ScreenshotClient it is, 0 for None
    clients,            \* per worker, is_running and _stop_event of its ScreenshotClient
    wpc,                \* per worker thread, its position in run_client_process
    callbacks,          \* calls of on_client_stopped waiting in the main loop
    stopped             \* the workers that were running when stop_client took effect

config == <<variant, max_files, max_retries, retention_hours, save_local_copy, spool0>>
driver == <<now, spool, pc, initial, caller, timestamp, pending, idx, attempt, posts,
            outcome, local_copy, probe, last, offline>>
timing == <<interval_seconds, clock, start_time, last_execution_time, fired, tpc>>
stopping == <<shutdown_requested, stopped_at>>
storing == <<lock, thr>>
naming == <<put_args, filename, data, npc>>
gui == <<is_running, start_button, stop_button, client, clients, wpc, callbacks, stopped>>
rest == <<timing, collector, stopping, storing, naming, gui>>
vars == <<config, driver, rest>>

TimeLimit == PrevFiles + MaxTicks

\* The driver model's clock stands still at TimeLimit under a good collector:
\* captures go on, and since each is delivered no file is named or aged by the
\* clock any more.
ClockStopped == collector = "good" /\ now = TimeLimit

\* The clock after a capture.
after_capture(t) == IF t < TimeLimit THEN t + 1 ELSE t

\* What one HTTP POST can come to: a 200 whose body says ok, a 200 with another
\* body, an error status, a connection error, a timeout.
Responses == {"200ok", "200other", "500", "ConnectionError", "Timeout"}

NoProbe == [first |-> "none", second |-> "none", result |-> "none"]

NoPut == [ok |-> FALSE, n |-> 0, full |-> FALSE]

NoOp == [op |-> "none", ts |-> 0, ok |-> TRUE, n |-> 0, full |-> FALSE, put |-> NoPut]

NoOutage == [cycles |-> <<>>, open |-> TRUE]

Broken == [cycles |-> <<>>, open |-> FALSE]

----------------------------------------------------------------------------
\* LocalImageStorage, src/client.py

get_file_count(s) == Cardinality(s)

\* The files a sort by st_mtime may put first.
OldestByMtime(s) == {f \in s : \A g \in s : f.mtime <= g.mtime}

\* Mutant of remove_oldest: the sort is reversed and the newest file goes.
remove_newest(s) ==
    IF s = {} THEN {s} ELSE {s \ {f} : f \in {g \in s : \A h \in s : g.mtime >= h.mtime}}

\* _remove_oldest: the possible stores after it.
remove_oldest(s) ==
    IF s = {} THEN {s} ELSE {s \ {f} : f \in OldestByMtime(s)}

\* filepath.write_bytes: creates the file, or overwrites the one of that name.
write_bytes(s, ts, t) == {g \in s : g.ts # ts} \cup {[ts |-> ts, mtime |-> t]}

\* Mutant of storage_full: > for >=.
storage_over(s) == Cardinality(s) > max_files

\* Whether save_image evicts before it writes.
storage_full(s) == get_file_count(s) >= max_files

\* save_image: the possible (store, result) pairs; wrote is whether the write
\* succeeded.
save_image(s, ts, t, wrote) ==
    LET evicted == IF storage_full(s) THEN remove_oldest(s) ELSE {s}
    IN  {[spool |-> IF wrote THEN write_bytes(e, ts, t) ELSE e, ok |-> wrote] :
            e \in evicted}

RECURSIVE SortedByMtime(_)
SortedByMtime(s) ==
    IF s = {} THEN {<<>>}
    ELSE UNION {{<<f>> \o p : p \in SortedByMtime(s \ {f})} : f \in OldestByMtime(s)}

\* Mutant of get_pending_images: the listing is empty.
get_pending_images_none(s) == {<<>>}

\* get_pending_images: the possible results of glob + sort by st_mtime.
get_pending_images(s) == SortedByMtime(s)

\* Mutant of remove_image: the file is left where it is.
remove_image_skipped(s, f) == s

\* remove_image: unlink if the file exists.
remove_image(s, f) == s \ {f}

\* Mutant of expired: the age is allowed one hour more.
expired_late(f, t) == t - f.mtime > retention_hours + 1

\* cleanup_old_files: a file goes when its age exceeds retention_hours.
expired(f, t) == t - f.mtime > retention_hours

cleanup_old_files(s, t) == {f \in s : ~expired(f, t)}

\* status_code == 200 is all send_screenshot and upload_local_images look at.
script_ok(r) == r \in {"200ok", "200other"}

----------------------------------------------------------------------------
\* LocalImageStorage and ScreenshotClient, src/src/screenshot_tool/core/client.py

\* save_image writes the file and nothing else.
pkg_save_image(s, ts, t) == write_bytes(s, ts, t)

RECURSIVE AnyOrder(_)
AnyOrder(s) ==
    IF s = {} THEN {<<>>}
    ELSE UNION {{<<f>> \o p : p \in AnyOrder(s \ {f})} : f \in s}

\* get_stored_files: iterdir() yields the files in an order of the OS's choosing.
get_stored_files(s) == AnyOrder(s)

\* utils/file_utils.py cleanup_old_files: drop the expired files, then keep the
\* max_files newest of the rest.
pkg_cleanup_old_files(s, t) ==
    LET remaining == {f \in s : ~expired(f, t)}
    IN  IF Cardinality(remaining) > max_files
        THEN {keep \in SUBSET remaining :
                /\ Cardinality(keep) = max_files
                /\ \A k \in keep, d \in remaining \ keep : k.mtime >= d.mtime}
        ELSE {remaining}

\* upload_image: raise_for_status, then the body's status must be "ok".
pkg_ok(r) == r = "200ok"

----------------------------------------------------------------------------
\* The connectivity probes

\* What requests.get on the health URL can come to: a status, an exception of
\* requests (RequestException), or another exception.
HealthOutcomes == {"200", "404", "500", "ConnectionError", "Timeout", "Exception"}

\* The same for requests.head on the upload URL.
FallbackOutcomes == {"200", "405", "404", "ConnectionError", "Timeout", "Exception"}

\* The outcomes that are exceptions of class requests.exceptions.RequestException.
RequestException(o) == o \in {"ConnectionError", "Timeout"}

\* Mutant of check_server_connection: of the answers to the HEAD request only
\* a 200 counts.
check_server_connection_200_only(h, f) ==
    IF h = "200" THEN "True"
    ELSE IF RequestException(h)
         THEN IF f = "200" THEN "True"
              ELSE IF f = "Exception" THEN "raise"
              ELSE "False"
    ELSE IF h = "Exception" THEN "raise"
    ELSE "False"

\* check_server_connection of src/client.py: "True", "False", or "raise" when
\* an exception leaves the function.  h is the outcome of the health request,
\* f that of the HEAD request, which is made only in the except branch.
check_server_connection(h, f) ==
    IF h = "200" THEN "True"
    ELSE IF RequestException(h)
         THEN IF f \in {"200", "405"} THEN "True"
              ELSE IF f = "Exception" THEN "raise"
              ELSE "False"
    ELSE IF h = "Exception" THEN "raise"
    ELSE "False"

\* The probes of the script with their results; second is "none" when the HEAD
\* request was not made.
ScriptProbes ==
    {[first |-> h,
      second |-> IF RequestException(h) THEN f ELSE "none",
      result |-> check_server_connection(h, f)] :
        h \in HealthOutcomes, f \in FallbackOutcomes}

\* What the TCP connect of utils/network_utils.py can come to: connect_ex
\* returns 0, returns an error number, or an exception is raised.
ConnectOutcomes == {"connected", "refused", "Exception"}

\* check_connection: result == 0, and False on every exception.
check_connection(c) == IF c = "connected" THEN "True" ELSE "False"

\* The probes of the package with their results.
PackageProbes ==
    {[first |-> c, second |-> "none", result |-> check_connection(c)] :
        c \in ConnectOutcomes}

\* What a POST can come to now: a server that accepts every upload answers
\* 200 with status ok.
ResponsesNow == IF collector = "good" THEN {"200ok"} ELSE Responses

\* What a probe can come to now: a reachable server is found reachable.
ProbesNow(all) == IF collector = "good" THEN {p \in all : p.result = "True"} ELSE all

----------------------------------------------------------------------------
\* Recording

\* An HTTP POST as recorded: the image it carried, whether it was this cycle's
\* fresh capture, whether it was taken as a success, and how many files the
\* spool held when it was made.
Post(f, fresh, ok) ==
    [ts |-> f, fresh |-> fresh, ok |-> ok, count |-> get_file_count(spool),
     slept |-> FALSE, sent |-> f, accepted |-> FALSE]

\* ... with the value t of its timestamp field and the answer r it got:
\* accepted is a status 200 whose body says ok.
Carrying(p, t, r) == [p EXCEPT !.sent = t, !.accepted = (r = "200ok")]

\* ... and the same when time.sleep(retry_delay) followed the attempt.
ThenSleep(p) == [p EXCEPT !.slept = TRUE]

\* A store operation as recorded, with the file count and fullness it found.
\* The removal of a file that the operation just before had put also records
\* what that put had found.
Op(name, ts, ok) ==
    [op |-> name, ts |-> ts, ok |-> ok, n |-> get_file_count(spool),
     full |-> storage_full(spool),
     put |-> IF name = "remove" /\ last.op = "put" /\ last.ts = ts
             THEN [ok |-> last.ok, n |-> last.n, full |-> last.full]
             ELSE NoPut]

Record(op) == last' = op

\* The run of unreachable cycles after one more cycle has ended.
Spooled(how, ok) ==
    IF offline.open /\ ok /\ how = "spooled_unreachable"
    THEN [offline EXCEPT !.cycles = Append(@, timestamp)]
    ELSE Broken

\* Whether the cycle that just ended logged at error level that its image is
\* lost: job_once does when save_image returns False and in its except branch
\* (an exception of the probe or of the local copy); capture_and_upload_once
\* has no such entry.
error_logged ==
    variant = "script" /\ outcome \in {"lost", "probe_raised", "copy_failed"}

\* The cycle's own bookkeeping is dropped when the loop turns.
Clear == /\ caller' = "none"
         /\ timestamp' = 0
         /\ posts' = <<>>
         /\ pending' = <<>>
         /\ idx' = 1
         /\ attempt' = 0
         /\ outcome' = "none"
         /\ local_copy' = "none"

----------------------------------------------------------------------------
\* The threads that may call the store: the driver's, and the one of a
\* control surface.
Threads == {"driver", "control"}

\* A thread that is in no store operation.
Idle == [op |-> "none", step |-> "idle", arg |-> 0, result |-> "none"]

\* The store's lock is free and no thread is in a store operation.
NoCalls ==
    /\ lock = "none"
    /\ thr = [t \in Threads |-> Idle]

\* The name model at rest: the driver model names a file by its timestamp
\* alone.
NoNames ==
    /\ put_args = [timestamp |-> <<>>, source |-> <<>>]
    /\ filename = <<>>
    /\ data = [timestamp |-> <<>>, source |-> <<>>]
    /\ npc = "off"

\* The worker threads of the window.
Workers == 1..MaxWorkers

\* A ScreenshotClient as __init__ leaves it.
NewClient == [is_running |-> FALSE, stop_event |-> FALSE]

\* The window as __init__ leaves it: nothing started.
NoGui ==
    /\ is_running = FALSE
    /\ start_button = "normal"
    /\ stop_button = "disabled"
    /\ client = 0
    /\ clients = [w \in Workers |-> NewClient]
    /\ wpc = [w \in Workers |-> "unborn"]
    /\ callbacks = 0
    /\ stopped = {}

\* No stop signal yet.
NoStop ==
    /\ shutdown_requested = FALSE
    /\ stopped_at = [now |-> 0, posts |-> 0]

\* The timing model at rest: the driver model below takes the due check of
\* the loop as the choice between Tick and a capture.
TimingOff ==
    /\ interval_seconds = 1
    /\ clock = 0
    /\ start_time = 0
    /\ last_execution_time = 0
    /\ fired = 0
    /\ tpc = "off"

\* The files a previous session can have left: written in order, each after
\* its capture.
PrevSession == {[ts |-> k - 1, mtime |-> k] : k \in 1..PrevFiles}

Init ==
    /\ variant \in {"script", "package"}
    /\ max_files \in 1..MaxFilesCfg
    /\ max_retries \in 0..MaxRetriesCfg
    /\ retention_hours \in 1..MaxRetentionCfg
    /\ save_local_copy \in BOOLEAN
    /\ spool0 \in SUBSET PrevSession
    /\ spool = spool0
    /\ now = PrevFiles
    /\ pc = "start"
    /\ initial = TRUE
    /\ caller = "none"
    /\ timestamp = 0
    /\ pending = <<>>
    /\ idx = 1
    /\ attempt = 0
    /\ posts = <<>>
    /\ outcome = "none"
    /\ local_copy = "none"
    /\ probe = NoProbe
    /\ last = NoOp
    /\ offline = NoOutage
    /\ TimingOff
    /\ collector = "any"
    /\ NoStop
    /\ NoCalls
    /\ NoNames
    /\ NoGui

\* Time passes between two turns of the driver's loop.
Tick ==
    /\ pc = "idle"
    /\ ~shutdown_requested
    /\ now < TimeLimit
    /\ now' = now + 1
    /\ probe' = NoProbe
    /\ UNCHANGED <<config, rest, local_copy, spool, pc, initial, caller, timestamp, pending, idx,
                   attempt, posts, outcome, last, offline>>

----------------------------------------------------------------------------
\* The driver of src/client.py

\* Mutant of SpoolAndEnd: the image is dropped instead of saved.
DropAndEnd(how) ==
    /\ outcome' = how
    /\ offline' = Broken
    /\ pc' = "done"
    /\ UNCHANGED <<spool, last>>

\* job_once calls save_image: the image of this cycle goes to the spool, or is
\* lost when the write fails; job_once returns.
SpoolAndEnd(how) ==
    \E wrote \in BOOLEAN : \E r \in save_image(spool, timestamp, now, wrote) :
        /\ spool' = r.spool
        /\ Record(Op("put", timestamp, r.ok))
        /\ outcome' = IF r.ok THEN how ELSE "lost"
        /\ offline' = Spooled(how, r.ok)
        /\ pc' = "done"

\* upload_local_images up to its loop: the snapshot is taken.
BeginDrain(s, who) ==
    \E p \in get_pending_images(s) :
        /\ pending' = p
        /\ idx' = 1
        /\ caller' = who
        /\ offline' = [offline EXCEPT !.open = FALSE]
        /\ pc' = "drain"

\* run_client before its loop: the spool of the last session is drained when
\* the server answers; the first capture follows at once.
run_client_start ==
    /\ variant = "script"
    /\ pc = "start"
    /\ \E p \in ProbesNow(ScriptProbes) :
        /\ probe' = p
        /\ IF p.result = "raise"
           THEN /\ pc' = "crashed"
                /\ UNCHANGED <<pending, idx, caller, offline>>
           ELSE IF p.result = "True" /\ get_file_count(spool) > 0
           THEN BeginDrain(spool, "start")
           ELSE /\ pc' = "job"
                /\ UNCHANGED <<pending, idx, caller, offline>>
    /\ UNCHANGED <<config, rest, local_copy, now, spool, initial, timestamp, attempt, posts, outcome,
                   last>>

\* What writing the local copy can come to.
LocalCopyResults == IF save_local_copy THEN {"written", "failed"} ELSE {"none"}

\* job_once: the timestamp is taken, then the screen is captured and encoded,
\* then the local copy is written when the configuration asks for one; an
\* exception in any of them is caught at the end of job_once and ends the cycle.
job_once_capture ==
    /\ variant = "script"
    /\ pc \in {"job", "idle"}
    /\ pc = "idle" => ~shutdown_requested
    /\ now < TimeLimit \/ ClockStopped
    /\ timestamp' = now
    /\ now' = after_capture(now)
    /\ \E captured \in BOOLEAN :
        IF captured
        THEN \E copy \in LocalCopyResults :
                /\ local_copy' = copy
                /\ IF copy = "failed"
                   THEN /\ pc' = "done"
                        /\ outcome' = "copy_failed"
                   ELSE /\ pc' = "probe"
                        /\ outcome' = "none"
        ELSE /\ pc' = "done"
             /\ outcome' = "capture_failed"
             /\ local_copy' = "none"
    /\ probe' = NoProbe
    /\ UNCHANGED <<config, rest, spool, initial, caller, pending, idx, attempt, posts,
                   last, offline>>

\* job_once: the server does not answer the probe; the image is spooled and
\* the cycle is over.
job_once_unreachable ==
    /\ variant = "script"
    /\ pc = "probe"
    /\ \E p \in ProbesNow(ScriptProbes) : p.result = "False" /\ probe' = p
    /\ SpoolAndEnd("spooled_unreachable")
    /\ UNCHANGED <<config, rest, local_copy, now, initial, caller, timestamp, pending, idx, attempt, posts>>

\* job_once: the server answers; the spool is drained first when it holds files.
job_once_reachable ==
    /\ variant = "script"
    /\ pc = "probe"
    /\ \E p \in ProbesNow(ScriptProbes) : p.result = "True" /\ probe' = p
    /\ IF get_file_count(spool) > 0
       THEN BeginDrain(spool, "job")
       ELSE /\ pc' = "send"
            /\ UNCHANGED <<pending, idx, caller, offline>>
    /\ UNCHANGED <<config, rest, local_copy, now, spool, initial, timestamp, attempt, posts, outcome,
                   last>>

\* job_once: an exception leaves check_server_connection; it is caught at the
\* end of job_once, and the cycle is over with the image neither sent nor
\* spooled.
job_once_probe_raised ==
    /\ variant = "script"
    /\ pc = "probe"
    /\ \E p \in ProbesNow(ScriptProbes) : p.result = "raise" /\ probe' = p
    /\ pc' = "done"
    /\ outcome' = "probe_raised"
    /\ UNCHANGED <<config, rest, local_copy, now, spool, initial, caller, timestamp, pending,
                   idx, attempt, posts, last, offline>>

\* Mutant of next_local_image: a file whose upload failed is tried again.
next_local_image_again(i, n, ok) == IF ok THEN i + 1 ELSE i

\* The index upload_local_images goes on with after a file: the for loop has
\* no break, so it is the next file whatever the upload came to.
next_local_image(i, n, ok) == i + 1

\* upload_local_images, one turn of its loop: one POST of the file; the file is
\* removed on status 200.
upload_local_images_step ==
    /\ variant = "script"
    /\ pc = "drain"
    /\ idx <= Len(pending)
    /\ LET f == pending[idx] IN
        IF f \notin spool
        THEN \* read_bytes raises: counted as a failure
             /\ idx' = next_local_image(idx, Len(pending), FALSE)
             /\ UNCHANGED <<spool, posts, last>>
        ELSE \E r \in ResponsesNow :
                /\ posts' = Append(posts, Carrying(Post(f.ts, FALSE, script_ok(r)), f.ts, r))
                /\ idx' = next_local_image(idx, Len(pending), script_ok(r))
                /\ IF script_ok(r)
                   THEN /\ spool' = remove_image(spool, f)
                        /\ Record(Op("remove", f.ts, TRUE))
                   ELSE UNCHANGED <<spool, last>>
    /\ probe' = NoProbe
    /\ UNCHANGED <<config, rest, local_copy, now, pc, initial, caller, timestamp, pending, attempt,
                   outcome, offline>>

\* upload_local_images returns: job_once goes on to send the fresh image,
\* run_client to its first capture or to the next turn of its loop.
upload_local_images_return ==
    /\ variant = "script"
    /\ pc = "drain"
    /\ idx > Len(pending)
    /\ IF caller = "sweep"
       THEN /\ pc' = "idle"
            /\ Clear
       ELSE /\ pc' = IF caller = "job" THEN "send" ELSE "job"
            /\ UNCHANGED <<caller, timestamp, pending, idx, attempt, posts, outcome, local_copy>>
    /\ probe' = NoProbe
    /\ UNCHANGED <<config, rest, now, spool, initial, last, offline>>

\* Mutant of attempts_left: <= for <.
attempts_left_one_more(a) == a <= max_retries

\* Whether send_screenshot has attempts left after a failed one.
attempts_left(a) == a < max_retries

\* send_screenshot: an attempt is answered with status 200; job_once returns.
send_screenshot_success ==
    /\ variant = "script"
    /\ pc = "send"
    /\ \E r \in {x \in ResponsesNow : script_ok(x)} :
        posts' = Append(posts, Carrying(Post(timestamp, TRUE, TRUE), now, r))
    /\ outcome' = "delivered"
    /\ offline' = Broken
    /\ pc' = "done"
    /\ probe' = NoProbe
    /\ UNCHANGED <<config, rest, local_copy, now, spool, initial, caller, timestamp, pending, idx,
                   attempt, last>>

\* send_screenshot: an attempt fails and attempts are left; it sleeps and
\* tries again.
send_screenshot_retry ==
    /\ variant = "script"
    /\ pc = "send"
    /\ attempts_left(attempt)
    /\ \E r \in {x \in ResponsesNow : ~script_ok(x)} :
        posts' = Append(posts, ThenSleep(Carrying(Post(timestamp, TRUE, FALSE), now, r)))
    /\ attempt' = attempt + 1
    /\ probe' = NoProbe
    /\ UNCHANGED <<config, rest, local_copy, now, spool, pc, initial, caller, timestamp, pending, idx,
                   outcome, last, offline>>

\* send_screenshot: the last attempt fails; job_once spools the image.
send_screenshot_exhausted ==
    /\ variant = "script"
    /\ pc = "send"
    /\ ~attempts_left(attempt)
    /\ \E r \in {x \in ResponsesNow : ~script_ok(x)} :
        posts' = Append(posts, Carrying(Post(timestamp, TRUE, FALSE), now, r))
    /\ SpoolAndEnd("spooled_failed")
    /\ probe' = NoProbe
    /\ UNCHANGED <<config, rest, local_copy, now, initial, caller, timestamp, pending, idx, attempt>>

\* job_once has returned; the loop of run_client turns.
job_once_return ==
    /\ variant = "script"
    /\ pc = "done"
    /\ pc' = "idle"
    /\ initial' = FALSE
    /\ Clear
    /\ probe' = NoProbe
    /\ UNCHANGED <<config, rest, now, spool, last, offline>>

\* run_client's loop, every 600 turns: cleanup_old_files.
run_client_cleanup ==
    /\ variant = "script"
    /\ pc = "idle"
    /\ ~shutdown_requested
    /\ spool' = cleanup_old_files(spool, now)
    /\ Record(Op("sweep", 0, TRUE))
    /\ offline' = IF spool' = spool THEN offline ELSE Broken
    /\ pc' = "swept"
    /\ probe' = NoProbe
    /\ UNCHANGED <<config, rest, local_copy, now, initial, caller, timestamp, pending, idx, attempt,
                   posts, outcome>>

\* ... and after it a drain pass when the server answers the probe.
run_client_after_cleanup ==
    /\ variant = "script"
    /\ pc = "swept"
    /\ \E p \in ProbesNow(ScriptProbes) :
        /\ probe' = p
        /\ IF p.result = "raise"
           THEN /\ pc' = "crashed"
                /\ UNCHANGED <<pending, idx, caller, offline>>
           ELSE IF p.result = "True"
           THEN BeginDrain(spool, "sweep")
           ELSE /\ pc' = "idle"
                /\ UNCHANGED <<pending, idx, caller, offline>>
    /\ UNCHANGED <<config, rest, local_copy, now, spool, initial, timestamp, attempt, posts, outcome,
                   last>>

----------------------------------------------------------------------------
\* The driver of src/src/screenshot_tool/core/client.py (ScreenshotClient)

\* capture_and_upload_once calls save_image, which writes the file and does
\* not catch a failing write: the exception leaves run().
StoreAndEnd(how) ==
    \E wrote \in BOOLEAN :
        IF wrote
        THEN /\ spool' = pkg_save_image(spool, timestamp, now)
             /\ Record(Op("put", timestamp, TRUE))
             /\ outcome' = how
             /\ offline' = Spooled(how, TRUE)
             /\ local_copy' \in LocalCopyResults
             /\ pc' = "done"
        ELSE /\ pc' = "crashed"
             /\ outcome' = "lost"
             /\ offline' = Broken
             /\ UNCHANGED <<spool, last, local_copy>>

\* upload_stored_images up to its loop: the listing is taken.
BeginUpload(who) ==
    \E p \in get_stored_files(spool) :
        /\ pending' = p
        /\ idx' = 1
        /\ caller' = who
        /\ offline' = [offline EXCEPT !.open = FALSE]
        /\ pc' = "drain"

\* run before its loop: stored files are uploaded when there are any and the
\* server answers; the first capture follows at once.
run_start ==
    /\ variant = "package"
    /\ pc = "start"
    /\ IF get_file_count(spool) > 0
       THEN \E p \in ProbesNow(PackageProbes) :
                /\ probe' = p
                /\ IF p.result = "True"
                   THEN BeginUpload("start")
                   ELSE /\ pc' = "job"
                        /\ UNCHANGED <<pending, idx, caller, offline>>
       ELSE /\ probe' = NoProbe
            /\ pc' = "job"
            /\ UNCHANGED <<pending, idx, caller, offline>>
    /\ UNCHANGED <<config, rest, local_copy, now, spool, initial, timestamp, attempt, posts, outcome,
                   last>>

\* capture_and_upload_once: the screen is captured and the file is named; no
\* image ends the cycle.  The name's timestamp is the clock before the probe.
capture_and_upload_once_capture ==
    /\ variant = "package"
    /\ pc \in {"job", "idle"}
    /\ pc = "idle" => ~shutdown_requested
    /\ now < TimeLimit \/ ClockStopped
    /\ timestamp' = now
    /\ now' = after_capture(now)
    /\ \E captured \in BOOLEAN :
        IF captured
        THEN /\ pc' = "probe"
             /\ outcome' = "none"
        ELSE /\ pc' = "done"
             /\ outcome' = "capture_failed"
    /\ local_copy' = "none"
    /\ probe' = NoProbe
    /\ UNCHANGED <<config, rest, spool, initial, caller, pending, idx, attempt, posts,
                   last, offline>>

\* capture_and_upload_once: no connection; the image is stored.
capture_and_upload_once_unreachable ==
    /\ variant = "package"
    /\ pc = "probe"
    /\ \E p \in ProbesNow(PackageProbes) : p.result = "False" /\ probe' = p
    /\ StoreAndEnd("spooled_unreachable")
    /\ UNCHANGED <<config, rest, now, initial, caller, timestamp, pending, idx, attempt, posts>>

\* capture_and_upload_once: the connection is there and upload_image succeeds
\* at its one attempt.
capture_and_upload_once_uploaded ==
    /\ variant = "package"
    /\ pc = "probe"
    /\ \E p \in ProbesNow(PackageProbes) : p.result = "True" /\ probe' = p
    /\ \E r \in {x \in ResponsesNow : pkg_ok(x)} :
        posts' = Append(posts, Carrying(Post(timestamp, TRUE, TRUE), now, r))
    /\ outcome' = "delivered"
    /\ offline' = Broken
    /\ local_copy' \in LocalCopyResults
    /\ pc' = "done"
    /\ UNCHANGED <<config, rest, now, spool, initial, caller, timestamp, pending, idx,
                   attempt, last>>

\* capture_and_upload_once: the connection is there and upload_image fails at
\* its one attempt; the image is stored.
capture_and_upload_once_failed ==
    /\ variant = "package"
    /\ pc = "probe"
    /\ \E p \in ProbesNow(PackageProbes) : p.result = "True" /\ probe' = p
    /\ \E r \in {x \in ResponsesNow : ~pkg_ok(x)} :
        posts' = Append(posts, Carrying(Post(timestamp, TRUE, FALSE), now, r))
    /\ StoreAndEnd("spooled_failed")
    /\ UNCHANGED <<config, rest, now, initial, caller, timestamp, pending, idx, attempt>>

\* run: after its first capture the loop begins.
run_first_done ==
    /\ variant = "package"
    /\ pc = "done"
    /\ initial
    /\ initial' = FALSE
    /\ pc' = "idle"
    /\ Clear
    /\ probe' = NoProbe
    /\ UNCHANGED <<config, rest, now, spool, last, offline>>

\* run, in its loop after a capture: stored files are uploaded when there are
\* any and the server answers.
run_after_capture ==
    /\ variant = "package"
    /\ pc = "done"
    /\ ~initial
    /\ IF get_file_count(spool) > 0
       THEN \E p \in ProbesNow(PackageProbes) :
                /\ probe' = p
                /\ IF p.result = "True"
                   THEN /\ BeginUpload("loop")
                        /\ UNCHANGED <<timestamp, attempt, posts, outcome, local_copy>>
                   ELSE /\ pc' = "idle"
                        /\ Clear
                        /\ UNCHANGED offline
       ELSE /\ probe' = NoProbe
            /\ pc' = "idle"
            /\ Clear
            /\ UNCHANGED offline
    /\ UNCHANGED <<config, rest, now, spool, initial, last>>

\* The index upload_stored_images goes on with after a file: the loop breaks
\* at the first upload that fails.
next_stored_file(i, n, ok) == IF ok THEN i + 1 ELSE n + 1

\* upload_stored_images, one turn of its loop: nothing is done with the file
\* when the stop event is set.
upload_stored_images_step ==
    /\ variant = "package"
    /\ pc = "drain"
    /\ idx <= Len(pending)
    /\ LET f == pending[idx] IN
        IF shutdown_requested
        THEN /\ idx' = idx + 1
             /\ UNCHANGED <<spool, posts, last>>
        ELSE IF f \notin spool
        THEN \* read_bytes raises: the loop breaks
             /\ idx' = next_stored_file(idx, Len(pending), FALSE)
             /\ UNCHANGED <<spool, posts, last>>
        ELSE \E r \in ResponsesNow :
                /\ posts' = Append(posts, Carrying(Post(f.ts, FALSE, pkg_ok(r)), now, r))
                /\ idx' = next_stored_file(idx, Len(pending), pkg_ok(r))
                /\ IF pkg_ok(r)
                   THEN /\ spool' = remove_image(spool, f)
                        /\ Record(Op("remove", f.ts, TRUE))
                   ELSE UNCHANGED <<spool, last>>
    /\ probe' = NoProbe
    /\ UNCHANGED <<config, rest, local_copy, now, pc, initial, caller, timestamp, pending, attempt,
                   outcome, offline>>

\* upload_stored_images returns: run goes on to its first capture or to the
\* next turn of its loop.
upload_stored_images_return ==
    /\ variant = "package"
    /\ pc = "drain"
    /\ idx > Len(pending)
    /\ IF caller = "start"
       THEN /\ pc' = "job"
            /\ UNCHANGED <<caller, timestamp, pending, idx, attempt, posts, outcome, local_copy>>
       ELSE /\ pc' = "idle"
            /\ Clear
    /\ probe' = NoProbe
    /\ UNCHANGED <<config, rest, now, spool, initial, last, offline>>

\* run's loop, every 600 turns: cleanup_old_files of utils/file_utils.py.
run_cleanup ==
    /\ variant = "package"
    /\ pc = "idle"
    /\ ~shutdown_requested
    /\ \E kept \in pkg_cleanup_old_files(spool, now) :
        /\ spool' = kept
        /\ offline' = IF kept = spool THEN offline ELSE Broken
    /\ Record(Op("sweep", 0, TRUE))
    /\ pc' = "swept"
    /\ probe' = NoProbe
    /\ UNCHANGED <<config, rest, local_copy, now, initial, caller, timestamp, pending, idx, attempt,
                   posts, outcome>>

\* ... and the loop turns.
run_after_cleanup ==
    /\ variant = "package"
    /\ pc = "swept"
    /\ pc' = "idle"
    /\ probe' = NoProbe
    /\ UNCHANGED <<config, rest, local_copy, now, spool, initial, caller, timestamp, pending, idx,
                   attempt, posts, outcome, last, offline>>

Next ==
    \/ Tick
    \/ run_client_start
    \/ job_once_capture
    \/ job_once_unreachable
    \/ job_once_reachable
    \/ job_once_probe_raised
    \/ upload_local_images_step
    \/ upload_local_images_return
    \/ send_screenshot_success
    \/ send_screenshot_retry
    \/ send_screenshot_exhausted
    \/ job_once_return
    \/ run_client_cleanup
    \/ run_client_after_cleanup
    \/ run_start
    \/ capture_and_upload_once_capture
    \/ capture_and_upload_once_unreachable
    \/ capture_and_upload_once_uploaded
    \/ capture_and_upload_once_failed
    \/ run_first_done
    \/ run_after_capture
    \/ upload_stored_images_step
    \/ upload_stored_images_return
    \/ run_cleanup
    \/ run_after_cleanup

Spec == Init /\ [][Next]_vars

----------------------------------------------------------------------------
\* The driver with a collector that recovers for good, and a loop that keeps
\* turning.

\* From now on the server is reachable and accepts every upload.
collector_recovers ==
    /\ collector = "any"
    /\ collector' = "good"
    /\ UNCHANGED <<config, driver, timing, stopping, storing, naming, gui>>

LiveNext == Next \/ collector_recovers

\* The loop keeps turning: a step that can be made is made; the capture comes
\* due again and again (the due check of every turn), and so does the sweep
\* (cleanup_counter reaches 600 again and again).
Fairness ==
    /\ WF_vars(Next)
    /\ SF_vars(job_once_capture)
    /\ SF_vars(capture_and_upload_once_capture)
    /\ SF_vars(run_client_cleanup)
    /\ SF_vars(run_cleanup)

\* The configurations followed: room for two files, one retry of a fresh
\* upload, no local copy.
LiveInit ==
    /\ Init
    /\ max_files = 2
    /\ max_retries = 1
    /\ save_local_copy = FALSE

LiveSpec == LiveInit /\ [][LiveNext]_vars /\ Fairness

----------------------------------------------------------------------------
\* The driver with the stop signal.

\* signal_handler of src/client.py: SIGINT or SIGTERM sets shutdown_requested,
\* at any point of the driver's work.
signal_handler ==
    /\ variant = "script"
    /\ ~shutdown_requested
    /\ pc \notin {"crashed", "stopped"}
    /\ shutdown_requested' = TRUE
    /\ stopped_at' = [now |-> now, posts |-> Len(posts)]
    /\ UNCHANGED <<config, driver, timing, collector, storing, naming, gui>>

\* ScreenshotClient.stop, called from another thread: is_running is cleared
\* and the stop event is set.  run clears the event when it begins, so the
\* call counts from there on.
stop ==
    /\ variant = "package"
    /\ ~shutdown_requested
    /\ pc \notin {"crashed", "stopped"}
    /\ shutdown_requested' = TRUE
    /\ stopped_at' = [now |-> now, posts |-> Len(posts)]
    /\ UNCHANGED <<config, driver, timing, collector, storing, naming, gui>>

\* run_client: the loop condition fails and the loop is left.
run_client_exit ==
    /\ variant = "script"
    /\ pc = "idle"
    /\ shutdown_requested
    /\ pc' = "stopped"
    /\ probe' = NoProbe
    /\ UNCHANGED <<config, rest, local_copy, now, spool, initial, caller, timestamp, pending,
                   idx, attempt, posts, outcome, last, offline>>

\* run: the loop condition fails and the loop is left.
run_exit ==
    /\ variant = "package"
    /\ pc = "idle"
    /\ shutdown_requested
    /\ pc' = "stopped"
    /\ probe' = NoProbe
    /\ UNCHANGED <<config, rest, local_copy, now, spool, initial, caller, timestamp, pending,
                   idx, attempt, posts, outcome, last, offline>>

StopNext ==
    \/ Next
    \/ signal_handler
    \/ stop
    \/ run_client_exit
    \/ run_exit

\* The configurations followed: those without a local copy.
StopInit ==
    /\ Init
    /\ save_local_copy = FALSE

StopSpec == StopInit /\ [][StopNext]_vars

----------------------------------------------------------------------------
\* LocalImageStorage called from two threads.  Each operation is followed step
\* by step: the call, the entry into its body (for the operations of
\* src/client.py that take self.lock: the acquisition), the body, the return.
\* Here a deletion may also fail, as the except branches of the code foresee.

\* The operations of the two classes.
ScriptOps == {"save_image", "get_pending_images", "remove_image", "get_file_count",
              "cleanup_old_files", "clear_all"}
PackageOps == {"save_image", "get_stored_files", "get_file_count", "cleanup_old_files",
               "remove_file"}
StoreOps == IF variant = "script" THEN ScriptOps ELSE PackageOps

\* The operations that change the directory, and those that only read it.
Mutating == {"save_image", "remove_image", "remove_file", "cleanup_old_files", "clear_all"}
Reading == {"get_pending_images", "get_stored_files", "get_file_count"}

\* The name of a file that save_image is asked to write.
NewName == PrevFiles

\* The files the operations are called with: those of the last session and
\* the one a save_image writes.
KnownFiles == PrevSession \cup {[ts |-> NewName, mtime |-> now]}

\* The arguments an operation can be called with.
Args(op) ==
    IF op = "save_image" THEN {[ts |-> NewName, mtime |-> now]}
    ELSE IF op \in {"remove_image", "remove_file"} THEN KnownFiles
    ELSE {0}

\* Whether the operation's body is inside "with self.lock": in src/client.py
\* all but get_file_count (and _remove_oldest, which save_image calls with the
\* lock held); the class of core/client.py has no lock.
takes_lock(op) == variant = "script" /\ op # "get_file_count"

\* Mutant of release: the lock is kept.
release_never(l, t) == l

\* The end of "with self.lock": the lock is free again.
release(l, t) == IF l = t THEN "none" ELSE l

\* Mutant of remove_image_call: True whatever happened.
remove_image_call_true(s, f, unlinked) == [spool |-> remove_image(s, f), result |-> "True"]

\* remove_image of src/client.py with its result: True after the unlink of a
\* file that exists, False when there is none, False when the unlink raises.
remove_image_call(s, f, unlinked) ==
    IF f \in s
    THEN IF unlinked THEN [spool |-> remove_image(s, f), result |-> "True"]
         ELSE [spool |-> s, result |-> "False"]
    ELSE [spool |-> s, result |-> "False"]

\* remove_file of core/client.py with its result: True after the unlink, False
\* on the OSError that unlink raises, which it does for a file that is not
\* there (FileNotFoundError).
remove_file(s, f, unlinked) ==
    IF f \in s /\ unlinked THEN [spool |-> s \ {f}, result |-> "True"]
    ELSE [spool |-> s, result |-> "False"]

StoreInit ==
    /\ variant \in {"script", "package"}
    /\ max_files \in 1..MaxFilesCfg
    /\ max_retries = 0
    /\ retention_hours \in 1..MaxRetentionCfg
    /\ save_local_copy = FALSE
    /\ spool0 \in SUBSET PrevSession
    /\ spool = spool0
    /\ now = TimeLimit
    /\ pc = "off"
    /\ initial = TRUE
    /\ caller = "none"
    /\ timestamp = 0
    /\ pending = <<>>
    /\ idx = 1
    /\ attempt = 0
    /\ posts = <<>>
    /\ outcome = "none"
    /\ local_copy = "none"
    /\ probe = NoProbe
    /\ last = NoOp
    /\ offline = NoOutage
    /\ TimingOff
    /\ collector = "any"
    /\ NoStop
    /\ NoCalls
    /\ NoNames
    /\ NoGui

\* What a step of the store model leaves alone.
StoreFrame ==
    UNCHANGED <<config, now, pc, initial, caller, timestamp, pending, idx, attempt, posts,
                outcome, local_copy, probe, last, offline, timing, collector, stopping,
                naming, gui>>

\* The thread is in the body of operation op, at step st.
At(t, op, st) == thr[t].op = op /\ thr[t].step = st

\* The body is left: the lock is released when it was taken, and the
\* operation returns r.
Leave(t, r) ==
    /\ thr' = [thr EXCEPT ![t].step = "idle", ![t].result = r]
    /\ lock' = IF takes_lock(thr[t].op) THEN release(lock, t) ELSE lock

\* A thread calls an operation of the store.
Call(t) ==
    /\ thr[t].step = "idle"
    /\ \E op \in StoreOps : \E a \in Args(op) :
        thr' = [thr EXCEPT ![t] = [op |-> op, step |-> "call", arg |-> a, result |-> "none"]]
    /\ UNCHANGED <<lock, spool>>
    /\ StoreFrame

\* with self.lock: the thread waits until the lock is free and takes it.
Acquire(t) ==
    /\ thr[t].step = "call"
    /\ takes_lock(thr[t].op)
    /\ lock = "none"
    /\ lock' = t
    /\ thr' = [thr EXCEPT ![t].step = "in"]
    /\ UNCHANGED spool
    /\ StoreFrame

\* An operation without a lock begins its body.
Enter(t) ==
    /\ thr[t].step = "call"
    /\ ~takes_lock(thr[t].op)
    /\ thr' = [thr EXCEPT ![t].step = "in"]
    /\ UNCHANGED <<lock, spool>>
    /\ StoreFrame

\* save_image of src/client.py: get_file_count() >= max_files, _remove_oldest.
\* An unlink that raises ends save_image with the exception.
save_image_evict(t) ==
    /\ variant = "script"
    /\ At(t, "save_image", "in")
    /\ IF storage_full(spool)
       THEN \/ /\ spool' \in remove_oldest(spool)
               /\ thr' = [thr EXCEPT ![t].step = "write"]
               /\ UNCHANGED lock
            \/ /\ spool # {}
               /\ Leave(t, "raise")
               /\ UNCHANGED spool
       ELSE /\ thr' = [thr EXCEPT ![t].step = "write"]
            /\ UNCHANGED <<lock, spool>>
    /\ StoreFrame

\* save_image of src/client.py: write_bytes; True, or False when it raises.
save_image_write(t) ==
    /\ variant = "script"
    /\ At(t, "save_image", "write")
    /\ \E wrote \in BOOLEAN :
        /\ spool' = IF wrote THEN write_bytes(spool, thr[t].arg.ts, now) ELSE spool
        /\ Leave(t, IF wrote THEN "True" ELSE "False")
    /\ StoreFrame

\* get_pending_images: glob and sort, with the lock held.
get_pending_images_list(t) ==
    /\ At(t, "get_pending_images", "in")
    /\ Leave(t, "list")
    /\ UNCHANGED spool
    /\ StoreFrame

\* remove_image of src/client.py.
remove_image_unlink(t) ==
    /\ At(t, "remove_image", "in")
    /\ \E unlinked \in BOOLEAN :
        LET r == remove_image_call(spool, thr[t].arg, unlinked) IN
            /\ spool' = r.spool
            /\ Leave(t, r.result)
    /\ StoreFrame

\* get_file_count of either class: the directory is listed and counted.
get_file_count_glob(t) ==
    /\ At(t, "get_file_count", "in")
    /\ Leave(t, "count")
    /\ UNCHANGED spool
    /\ StoreFrame

\* cleanup_old_files of src/client.py: the expired files are unlinked; an
\* unlink that raises is logged and the file stays.
cleanup_old_files_unlink(t) ==
    /\ variant = "script"
    /\ At(t, "cleanup_old_files", "in")
    /\ \E stay \in SUBSET (spool \ cleanup_old_files(spool, now)) :
        spool' = cleanup_old_files(spool, now) \cup stay
    /\ Leave(t, "None")
    /\ StoreFrame

\* clear_all: every file is unlinked; an unlink that raises ends it with the
\* exception, some files gone.
clear_all_unlink(t) ==
    /\ At(t, "clear_all", "in")
    /\ \E gone \in SUBSET spool :
        /\ spool' = spool \ gone
        /\ Leave(t, IF gone = spool THEN "None" ELSE "raise")
    /\ StoreFrame

\* save_image of core/client.py: write_bytes, and its exception is not caught.
pkg_save_image_write(t) ==
    /\ variant = "package"
    /\ At(t, "save_image", "in")
    /\ \E wrote \in BOOLEAN :
        /\ spool' = IF wrote THEN pkg_save_image(spool, thr[t].arg.ts, now) ELSE spool
        /\ Leave(t, IF wrote THEN "path" ELSE "raise")
    /\ StoreFrame

\* get_stored_files of core/client.py.
get_stored_files_list(t) ==
    /\ At(t, "get_stored_files", "in")
    /\ Leave(t, "list")
    /\ UNCHANGED spool
    /\ StoreFrame

\* cleanup_old_files of core/client.py, which calls that of utils/file_utils.py.
pkg_cleanup_old_files_unlink(t) ==
    /\ variant = "package"
    /\ At(t, "cleanup_old_files", "in")
    /\ spool' \in pkg_cleanup_old_files(spool, now)
    /\ Leave(t, "count")
    /\ StoreFrame

\* remove_file of core/client.py.
remove_file_unlink(t) ==
    /\ At(t, "remove_file", "in")
    /\ \E unlinked \in BOOLEAN :
        LET r == remove_file(spool, thr[t].arg, unlinked) IN
            /\ spool' = r.spool
            /\ Leave(t, r.result)
    /\ StoreFrame

\* The steps of one thread's operation once it is called.
Proceed(t) ==
    \/ Enter(t)
    \/ save_image_evict(t)
    \/ save_image_write(t)
    \/ get_pending_images_list(t)
    \/ remove_image_unlink(t)
    \/ get_file_count_glob(t)
    \/ cleanup_old_files_unlink(t)
    \/ clear_all_unlink(t)
    \/ pkg_save_image_write(t)
    \/ get_stored_files_list(t)
    \/ pkg_cleanup_old_files_unlink(t)
    \/ remove_file_unlink(t)

StoreNext ==
    \E t \in Threads :
        \/ Call(t)
        \/ Acquire(t)
        \/ Enter(t)
        \/ save_image_evict(t)
        \/ save_image_write(t)
        \/ get_pending_images_list(t)
        \/ remove_image_unlink(t)
        \/ get_file_count_glob(t)
        \/ cleanup_old_files_unlink(t)
        \/ clear_all_unlink(t)
        \/ pkg_save_image_write(t)
        \/ get_stored_files_list(t)
        \/ pkg_cleanup_old_files_unlink(t)
        \/ remove_file_unlink(t)

StoreSpec == StoreInit /\ [][StoreNext]_vars

\* A thread that is called goes on: it runs its body to the end, and it gets
\* the lock when the lock is free again and again.
StoreFairness ==
    \A t \in Threads : WF_vars(Proceed(t)) /\ SF_vars(Acquire(t))

FairStoreSpec == StoreSpec /\ StoreFairness

----------------------------------------------------------------------------
\* The schedule of the three loops: run_client of src/client.py, run of
\* core/client.py and run_client_process of src/client_gui.py.  The clock
\* counts sleep periods of the loop (0.5 s in run_client, 0.1 s in the others);
\* what a capture cycle does to the spool is the driver model's business, here
\* it only takes time.

\* The driver model at rest.
DriverOff ==
    /\ max_files = 1
    /\ max_retries = 0
    /\ retention_hours = 1
    /\ save_local_copy = FALSE
    /\ spool0 = {}
    /\ spool = {}
    /\ now = 0
    /\ pc = "off"
    /\ initial = TRUE
    /\ caller = "none"
    /\ timestamp = 0
    /\ pending = <<>>
    /\ idx = 1
    /\ attempt = 0
    /\ posts = <<>>
    /\ outcome = "none"
    /\ local_copy = "none"
    /\ probe = NoProbe
    /\ last = NoOp
    /\ offline = NoOutage

TimerInit ==
    /\ variant \in {"script", "package", "gui"}
    /\ interval_seconds \in 1..MaxInterval
    /\ clock = 0
    /\ start_time = 0
    /\ last_execution_time = 0
    /\ fired = 0
    /\ tpc = "first"
    /\ collector = "any"
    /\ NoStop
    /\ NoCalls
    /\ NoNames
    /\ NoGui
    /\ DriverOff

\* The due check of the loops: current_time - last_execution_time >= interval_seconds.
is_due(current_time, since) == current_time - since >= interval_seconds

\* run_client and run_client_process: start_time is read, last_execution_time
\* is start_time, and the initial job_once takes its time.
run_client_initial ==
    /\ variant \in {"script", "gui"}
    /\ tpc = "first"
    /\ start_time' = clock
    /\ last_execution_time' = clock
    /\ \E d \in 0..MaxJobTime : clock' = clock + d
    /\ tpc' = "loop"
    /\ UNCHANGED <<config, driver, collector, stopping, storing, naming, gui, interval_seconds, fired>>

\* run: the initial capture_and_upload_once takes its time, and
\* last_execution_time is read after it.
run_initial ==
    /\ variant = "package"
    /\ tpc = "first"
    /\ \E d \in 0..MaxJobTime :
        /\ clock' = clock + d
        /\ start_time' = clock + d
        /\ last_execution_time' = clock + d
    /\ tpc' = "loop"
    /\ UNCHANGED <<config, driver, collector, stopping, storing, naming, gui, interval_seconds, fired>>

\* One turn of the loop: current_time is read; when the capture is due it is
\* made and last_execution_time becomes current_time; then the loop sleeps.
loop_turn ==
    /\ tpc = "loop"
    /\ clock < MaxClock
    /\ LET current_time == clock IN
        IF is_due(current_time, last_execution_time)
        THEN /\ \E d \in 0..MaxJobTime : clock' = clock + d + 1
             /\ last_execution_time' = current_time
             /\ fired' = fired + 1
        ELSE /\ clock' = clock + 1
             /\ UNCHANGED <<last_execution_time, fired>>
    /\ UNCHANGED <<config, driver, collector, stopping, storing, naming, gui, interval_seconds, start_time, tpc>>

\* The loop of run_client.
run_client_loop == variant = "script" /\ loop_turn

\* The loop of run.
run_loop == variant = "package" /\ loop_turn

\* The loop of run_client_process.
run_client_process_loop == variant = "gui" /\ loop_turn

TimerNext ==
    \/ run_client_initial
    \/ run_initial
    \/ run_client_loop
    \/ run_loop
    \/ run_client_process_loop

TimerSpec == TimerInit /\ [][TimerNext]_vars

----------------------------------------------------------------------------
\* The name of a spool file.  A string is a sequence of characters.

\* The characters of a timestamp: strftime("%Y%m%dT%H%M%S%fZ") writes digits,
\* T and Z.
StampChars == {"2", "T"}

\* The characters of a source: a host name has letters, digits, hyphens and,
\* on the systems that allow it, underscores.
SourceChars == {"h", "-", "_"}

\* The strings over a set of characters, of 1..n characters.
Strings(chars, n) == UNION {[1..k -> chars] : k \in 1..n}

\* ".jpg"
Extension == <<".", "j", "p", "g">>

\* save_image: filename = f"{timestamp}_{source}.jpg"
file_name(timestamp_, source) == timestamp_ \o <<"_">> \o source \o Extension

\* c in s
contains(s, c) == \E i \in 1..Len(s) : s[i] = c

\* The place of the last c in s.
rfind(s, c) == CHOOSE i \in 1..Len(s) : s[i] = c /\ \A j \in (i + 1)..Len(s) : s[j] # c

\* s.rsplit(c, 1), for a string that contains c: what is before the last c,
\* and what is after it.
rsplit_once(s, c) ==
    LET i == rfind(s, c) IN <<SubSeq(s, 1, i - 1), SubSeq(s, i + 1, Len(s))>>

\* s.replace('.jpg', ''): every ".jpg" in s is taken out, from the left.
RECURSIVE replace_jpg(_)
replace_jpg(s) ==
    IF Len(s) < Len(Extension) THEN s
    ELSE IF SubSeq(s, 1, Len(Extension)) = Extension
         THEN replace_jpg(SubSeq(s, Len(Extension) + 1, Len(s)))
         ELSE <<s[1]>> \o replace_jpg(Tail(s))

\* upload_local_images: the timestamp and the source it reads from the name of
\* a file; for a name without an underscore, from the file's mtime and the
\* host name.
parse_name(name) ==
    IF contains(name, "_")
    THEN LET parts == rsplit_once(name, "_") IN
            [timestamp |-> parts[1], source |-> replace_jpg(parts[2])]
    ELSE [timestamp |-> <<"m", "t", "i", "m", "e">>, source |-> <<"h">>]

NameInit ==
    /\ variant = "script"
    /\ put_args \in [timestamp : Strings(StampChars, MaxStampLen),
                     source : Strings(SourceChars, MaxSourceLen)]
    /\ filename = <<>>
    /\ data = [timestamp |-> <<>>, source |-> <<>>]
    /\ npc = "put"
    /\ TimingOff
    /\ collector = "any"
    /\ NoStop
    /\ NoCalls
    /\ NoGui
    /\ DriverOff

\* save_image(image_bytes, timestamp, source), the write succeeding.
save_image_name ==
    /\ npc = "put"
    /\ filename' = file_name(put_args.timestamp, put_args.source)
    /\ npc' = "written"
    /\ UNCHANGED <<config, driver, timing, collector, stopping, storing, gui, put_args, data>>

\* upload_local_images, for the file of that name: the data of its POST.
upload_local_images_data ==
    /\ npc = "written"
    /\ data' = parse_name(filename)
    /\ npc' = "sent"
    /\ UNCHANGED <<config, driver, timing, collector, stopping, storing, gui, put_args, filename>>

NameNext ==
    \/ save_image_name
    \/ upload_local_images_data

NameSpec == NameInit /\ [][NameNext]_vars

----------------------------------------------------------------------------
\* The driver with another thread that calls the store during a drain pass:
\* the listing of the pass is then a snapshot of a store that changes under
\* it.  thr["control"] holds the other thread's last call (op) and how many
\* calls it has made (arg).

\* The other thread has made a call of operation op.
Called(op) ==
    thr' = [thr EXCEPT !["control"].op = op, !["control"].arg = @ + 1]

\* clear_all, or remove_image of some files, while the driver is in a drain
\* pass.
clear_during_drain ==
    /\ pc = "drain"
    /\ thr["control"].arg < MaxCalls
    /\ \E gone \in (SUBSET spool) \ {{}} : spool' = spool \ gone
    /\ Called("clear_all")
    /\ UNCHANGED <<config, timing, collector, stopping, naming, gui, lock, now, pc, initial,
                   caller, timestamp, pending, idx, attempt, posts, outcome, local_copy,
                   probe, last, offline>>

\* save_image of a new image while the driver is in a drain pass.
put_during_drain ==
    /\ pc = "drain"
    /\ thr["control"].arg < MaxCalls
    /\ now < TimeLimit
    /\ IF variant = "script"
       THEN \E r \in save_image(spool, now, now, TRUE) : spool' = r.spool
       ELSE spool' = pkg_save_image(spool, now, now)
    /\ now' = now + 1
    /\ Called("save_image")
    /\ UNCHANGED <<config, timing, collector, stopping, naming, gui, lock, pc, initial,
                   caller, timestamp, pending, idx, attempt, posts, outcome, local_copy,
                   probe, last, offline>>

DrainNext ==
    \/ Next
    \/ clear_during_drain
    \/ put_during_drain

\* The configurations followed: room for two files, one retry of a fresh
\* upload, one hour of retention, no local copy.
DrainInit ==
    /\ Init
    /\ max_files = 2
    /\ max_retries = 1
    /\ retention_hours = 1
    /\ save_local_copy = FALSE

\* The driver's thread is scheduled, and every HTTP call returns within its
\* timeout: a step the driver can make is made.
DrainSpec == DrainInit /\ [][DrainNext]_vars /\ WF_vars(Next)

----------------------------------------------------------------------------
\* The window: ClientGUI of src/client_gui.py (variant "gui") and of
\* gui/client_gui.py of the package (variant "package").  start_client,
\* stop_client and on_client_stopped run in the main loop, one at a time;
\* run_client_process runs in a worker thread of its own.

GuiInit ==
    /\ variant \in {"gui", "package"}
    /\ NoGui
    /\ TimingOff
    /\ collector = "any"
    /\ NoStop
    /\ NoCalls
    /\ NoNames
    /\ DriverOff

\* What a step of the window model leaves alone.
GuiFrame == UNCHANGED <<config, driver, timing, collector, stopping, storing, naming>>

\* Mutant of can_click: a click reaches the command whatever the button's state.
can_click_always(button) == TRUE

\* A click on a button calls its command when the button is not disabled.
can_click(button) == button = "normal"

\* The workers that have been started and have not returned.
Alive == {w \in Workers : wpc[w] \notin {"unborn", "exited"}}

\* start_client, on a click of the start button: nothing when is_running;
\* else is_running is set, the buttons change and the worker thread is started.
start_client ==
    /\ can_click(start_button)
    /\ ~is_running
    /\ \E w \in Workers :
        /\ wpc[w] = "unborn"
        /\ \A v \in 1..(w - 1) : wpc[v] # "unborn"
        /\ wpc' = [wpc EXCEPT ![w] = "begin"]
    /\ is_running' = TRUE
    /\ start_button' = "disabled"
    /\ stop_button' = "normal"
    /\ UNCHANGED <<client, clients, callbacks, stopped>>
    /\ GuiFrame

\* stop_client, on a click of the stop button: nothing when not is_running;
\* else is_running is cleared, and in the package stop() of self.client is
\* called when there is one.
stop_client ==
    /\ can_click(stop_button)
    /\ is_running
    /\ is_running' = FALSE
    /\ clients' = IF variant = "package" /\ client # 0
                  THEN [clients EXCEPT ![client] = [is_running |-> FALSE, stop_event |-> TRUE]]
                  ELSE clients
    /\ stopped' = stopped \cup Alive
    /\ UNCHANGED <<start_button, stop_button, client, wpc, callbacks>>
    /\ GuiFrame

\* on_client_stopped, called by the main loop: the start button is enabled.
on_client_stopped ==
    /\ callbacks > 0
    /\ callbacks' = callbacks - 1
    /\ start_button' = "normal"
    /\ stop_button' = "disabled"
    /\ UNCHANGED <<is_running, client, clients, wpc, stopped>>
    /\ GuiFrame

\* run_client_process up to the loop.  src/client_gui.py: the storage is made,
\* the spool of the last session is drained, the initial job_once is run.
\* Package: the ScreenshotClient is made and assigned to self.client.
run_client_process_begin(w) ==
    /\ wpc[w] = "begin"
    /\ IF variant = "package"
       THEN /\ client' = w
            /\ clients' = [clients EXCEPT ![w] = NewClient]
            /\ wpc' = [wpc EXCEPT ![w] = "made"]
       ELSE /\ wpc' = [wpc EXCEPT ![w] = "loop"]
            /\ UNCHANGED <<client, clients>>
    /\ UNCHANGED <<is_running, start_button, stop_button, callbacks, stopped>>
    /\ GuiFrame

\* ScreenshotClient.run, its first statement: self.is_running = True.
run_set_running(w) ==
    /\ variant = "package"
    /\ wpc[w] = "made"
    /\ clients' = [clients EXCEPT ![w].is_running = TRUE]
    /\ wpc' = [wpc EXCEPT ![w] = "set"]
    /\ UNCHANGED <<is_running, start_button, stop_button, client, callbacks, stopped>>
    /\ GuiFrame

\* ScreenshotClient.run, its second statement: self._stop_event.clear(); the
\* stored files are uploaded and the initial capture is made.
run_clear_event(w) ==
    /\ variant = "package"
    /\ wpc[w] = "set"
    /\ clients' = [clients EXCEPT ![w].stop_event = FALSE]
    /\ wpc' = [wpc EXCEPT ![w] = "loop"]
    /\ UNCHANGED <<is_running, start_button, stop_button, client, callbacks, stopped>>
    /\ GuiFrame

\* The condition of the worker's loop: self.is_running of the window in
\* src/client_gui.py, is_running and the stop event of its own client in run.
loop_condition(w) ==
    IF variant = "package"
    THEN clients[w].is_running /\ ~clients[w].stop_event
    ELSE is_running

\* The worker's loop reads its condition: it goes into a turn or leaves.
run_client_process_check(w) ==
    /\ wpc[w] = "loop"
    /\ wpc' = [wpc EXCEPT ![w] = IF loop_condition(w) THEN "turn" ELSE "finally"]
    /\ UNCHANGED <<is_running, start_button, stop_button, client, clients, callbacks, stopped>>
    /\ GuiFrame

\* A turn of the loop (a capture when one is due, the sweep, the sleep) ends.
run_client_process_turn(w) ==
    /\ wpc[w] = "turn"
    /\ wpc' = [wpc EXCEPT ![w] = "loop"]
    /\ UNCHANGED <<is_running, start_button, stop_button, client, clients, callbacks, stopped>>
    /\ GuiFrame

\* An exception leaves the body of run_client_process and is caught.
run_client_process_raises(w) ==
    /\ wpc[w] \in {"begin", "made", "set", "turn"}
    /\ wpc' = [wpc EXCEPT ![w] = "finally"]
    /\ UNCHANGED <<is_running, start_button, stop_button, client, clients, callbacks, stopped>>
    /\ GuiFrame

\* The finally branch of run_client_process: is_running is cleared and
\* on_client_stopped is handed to the main loop; the thread ends.
run_client_process_finally(w) ==
    /\ wpc[w] = "finally"
    /\ is_running' = FALSE
    /\ callbacks' = callbacks + 1
    /\ wpc' = [wpc EXCEPT ![w] = "exited"]
    /\ UNCHANGED <<start_button, stop_button, client, clients, stopped>>
    /\ GuiFrame

\* The steps a worker thread takes when nothing fails.
Worker(w) ==
    \/ run_client_process_begin(w)
    \/ run_set_running(w)
    \/ run_clear_event(w)
    \/ run_client_process_check(w)
    \/ run_client_process_turn(w)
    \/ run_client_process_finally(w)

GuiNext ==
    \/ start_client
    \/ stop_client
    \/ on_client_stopped
    \/ \E w \in Workers :
        \/ run_client_process_begin(w)
        \/ run_set_running(w)
        \/ run_clear_event(w)
        \/ run_client_process_check(w)
        \/ run_client_process_turn(w)
        \/ run_client_process_raises(w)
        \/ run_client_process_finally(w)

GuiSpec == GuiInit /\ [][GuiNext]_vars

\* Every worker thread is scheduled and every HTTP call of a turn returns
\* within its timeout; the main loop runs the callbacks handed to it.
GuiFairness ==
    /\ \A w \in Workers : WF_vars(Worker(w))
    /\ WF_vars(on_client_stopped)

FairGuiSpec == GuiSpec /\ GuiFairness

----------------------------------------------------------------------------
\* Properties

TsOf(s) == {f.ts : f \in s}

TsSeq(q) == [i \in 1..Len(q) |-> q[i].ts]

\* The POSTs of spooled files, and those of the cycle's fresh image.
DrainPosts == SelectSeq(posts, LAMBDA p : ~p.fresh)

FreshPosts == SelectSeq(posts, LAMBDA p : p.fresh)

\* The loop of a drain pass is over and the pass is about to return.
DrainDone == pc = "drain" /\ idx > Len(pending)

\* A step in which src/client.py's save_image ran.
ScriptPut == variant = "script" /\ last' # last /\ last'.op = "put"

\* C1 (as claimed): whatever the spool directory held at start, after a put
\* (save_image) has returned the spool holds at most max_files files.
C1_CapacityAfterPut ==
    last.op = "put" => get_file_count(spool) <= max_files

\* C2: a put on a store at capacity removes exactly one file, the one with the
\* oldest capture time, and no other; the only file it adds is the new one,
\* which is there when the write succeeded.
C2_EvictsOldest ==
    [][(ScriptPut /\ storage_full(spool)) =>
        \E f \in spool :
            /\ \A g \in spool : f.ts <= g.ts
            /\ spool \ spool' = {f}
            /\ spool' \ spool \subseteq {[ts |-> last'.ts, mtime |-> now]}
            /\ last'.ok => [ts |-> last'.ts, mtime |-> now] \in spool']_vars

\* C2 witness: a put that succeeded on a full store of at least two files.
C2_Witness ==
    /\ variant = "script"
    /\ pc = "done"
    /\ last.op = "put" /\ last.ok /\ last.full /\ last.n >= 2 /\ last.n = max_files
    /\ get_file_count(spool) = last.n

\* C3 (as claimed): when in a drain pass over three files the upload of the
\* second fails after the first succeeded, the pass makes no further upload,
\* the first file is removed and the second and third remain.
C3_PartialDrainHalt ==
    (/\ DrainDone
     /\ Len(pending) = 3
     /\ Len(DrainPosts) >= 2
     /\ DrainPosts[1].ok
     /\ ~DrainPosts[2].ok)
    => /\ Len(DrainPosts) = 2
       /\ pending[1] \notin spool
       /\ pending[2] \in spool
       /\ pending[3] \in spool

\* C4 (as claimed): a fresh image whose every upload attempt failed is spooled
\* after exactly max_retries + 1 attempts, and it is not in the spool while
\* attempts are still being made.
C4_RetryExhaustion ==
    /\ (pc = "done" /\ outcome = "spooled_failed") =>
            /\ Len(FreshPosts) = max_retries + 1
            /\ \A i \in 1..Len(FreshPosts) : ~FreshPosts[i].ok
    /\ pc = "send" => timestamp \notin TsOf(spool)

C6_ListedOldestFirst ==
    pc = "drain" =>
        \A i, j \in 1..Len(pending) : i < j => pending[i].ts < pending[j].ts

\* C7 (as claimed): a drain pass whose every upload succeeded has uploaded the
\* files of its snapshot in strictly ascending order of capture time, all of
\* them, and none of them is left in the spool.
C7_FifoDrain ==
    (DrainDone /\ \A i \in 1..Len(DrainPosts) : DrainPosts[i].ok)
    => /\ \A i, j \in 1..Len(DrainPosts) :
            i < j => DrainPosts[i].ts < DrainPosts[j].ts
       /\ TsOf({pending[k] : k \in 1..Len(pending)}) = {DrainPosts[i].ts : i \in 1..Len(DrainPosts)}
       /\ \A k \in 1..Len(pending) : pending[k] \notin spool

\* C8: with max_files = 2 and an empty spool at start, three cycles A, B, C
\* that each found the server unreachable leave exactly B and C in the spool;
\* the drain pass that follows lists and uploads B, then C, and when both
\* uploads succeed the spool is empty.
C8_Scenario ==
    (variant = "script" /\ max_files = 2 /\ spool0 = {} /\ Len(offline.cycles) = 3)
    => /\ (last.op = "put" /\ last.ts = offline.cycles[3])
            => TsOf(spool) = {offline.cycles[2], offline.cycles[3]}
       /\ (pc = "drain" /\ idx = 1 /\ last.op = "put")
            => TsSeq(pending) = <<offline.cycles[2], offline.cycles[3]>>
       /\ (DrainDone /\ Len(pending) = 2)
            => /\ TsSeq(DrainPosts) = <<offline.cycles[2], offline.cycles[3]>>
               /\ (\A i \in 1..2 : DrainPosts[i].ok) => spool = {}

\* C8 witness: the scenario has run to the end of a drain pass that uploaded
\* both files.
C8_Witness ==
    /\ variant = "script" /\ max_files = 2 /\ spool0 = {} /\ Len(offline.cycles) = 3
    /\ DrainDone
    /\ Len(pending) = 2
    /\ \A i \in 1..Len(DrainPosts) : DrainPosts[i].ok
    /\ spool = {}

\* C9 (as claimed): a file that is put, listed and removed, with no other
\* store operation between the put and the remove, leaves as many files as
\* there were before the put.
C9_RoundTrip ==
    (variant = "script" /\ last.op = "remove" /\ last.put.ok)
    => get_file_count(spool) = last.put.n

\* C9 (amended): ... leaves as many files as there were before the put when
\* the store was below capacity, and one file fewer when it was at capacity
\* (the put evicted the oldest file).
C9_RoundTripBelowCapacity ==
    (variant = "script" /\ last.op = "remove" /\ last.put.ok)
    => get_file_count(spool) = IF last.put.full THEN last.put.n - 1 ELSE last.put.n

\* C9 witness: the round trip on a store that held a file and was not full.
C9_Witness ==
    /\ variant = "script"
    /\ last.op = "remove" /\ last.put.ok
    /\ ~last.put.full /\ last.put.n >= 1
    /\ get_file_count(spool) = last.put.n

\* C10 (as claimed): the first upload attempt of a cycle's fresh image, made
\* while the spool holds files, comes after the uploads of a drain pass.
C10_DrainBeforeFresh ==
    \A i \in 1..Len(posts) :
        (/\ posts[i].fresh
         /\ posts[i].count > 0
         /\ \A j \in 1..(i - 1) : ~posts[j].fresh)
        => i > 1

\* C11 (as claimed): in a turn of the driver's loop whose probe found the server
\* unreachable, the image has been put in the spool and no upload is made, of
\* a spooled file or of the fresh image, before the turn is over.
C11_UnreachableSpoolsOnly ==
    outcome = "spooled_unreachable"
    => /\ FreshPosts = <<>>
       /\ caller \notin {"job", "loop"}
       /\ \A i \in 1..Len(posts) : posts[i].ts # timestamp
       /\ last.op = "put" /\ last.ts = timestamp
       /\ timestamp \in TsOf(spool)

\* C11 witness: in such a turn the image just spooled has been uploaded from
\* the spool.
C11_Witness ==
    /\ outcome = "spooled_unreachable"
    /\ pc = "drain" /\ caller = "loop"
    /\ \E i \in 1..Len(posts) : posts[i].ts = timestamp /\ posts[i].ok

\* C12: when the server was reachable and the last upload attempt of the fresh
\* image failed, the cycle has put the image in the spool; when an attempt
\* succeeded, the image is not in the spool.
C12_SpoolIffDeliveryFailed ==
    (pc = "done" /\ FreshPosts # <<>>)
    => LET p == FreshPosts[Len(FreshPosts)] IN
        /\ p.ok => (outcome = "delivered" /\ timestamp \notin TsOf(spool))
        /\ ~p.ok => /\ outcome \in {"spooled_failed", "lost"}
                    /\ last.op = "put" /\ last.ts = timestamp
                    /\ last.ok => timestamp \in TsOf(spool)

\* C12 witness: a cycle whose upload failed has ended with its image spooled.
C12_Witness ==
    /\ pc = "done" /\ outcome = "spooled_failed"
    /\ FreshPosts # <<>>
    /\ timestamp \in TsOf(spool)

\* The number of POSTs made for the spooled file with capture time t.
DrainAttempts(t) ==
    Cardinality({i \in 1..Len(DrainPosts) : DrainPosts[i].ts = t})

\* C13 (as claimed): a spooled file that a drain pass has tried and failed to
\* upload has been given max_retries + 1 attempts in that pass.
C13_DrainRetries ==
    (DrainDone /\ caller \in {"start", "sweep", "loop"})
    => \A k \in 1..Len(pending) :
            (pending[k] \in spool /\ DrainAttempts(pending[k].ts) > 0)
            => DrainAttempts(pending[k].ts) = max_retries + 1

\* C14: send_screenshot makes at most max_retries + 1 attempts and none after
\* one that succeeded; it has slept after every attempt but the last and not
\* after the last; what it returns is the outcome of its last attempt.
C14_RetryLoop ==
    variant = "script" =>
        /\ Len(FreshPosts) <= max_retries + 1
        /\ \A i \in 1..Len(FreshPosts) :
                /\ i < Len(FreshPosts) => (~FreshPosts[i].ok /\ FreshPosts[i].slept)
                /\ FreshPosts[i].slept => (~FreshPosts[i].ok /\ i <= max_retries)
                /\ (pc = "send" /\ i = Len(FreshPosts)) => FreshPosts[i].slept
        /\ (pc = "done" /\ FreshPosts # <<>>) =>
                /\ ~FreshPosts[Len(FreshPosts)].slept
                /\ (outcome = "delivered") = FreshPosts[Len(FreshPosts)].ok
                /\ ~FreshPosts[Len(FreshPosts)].ok => Len(FreshPosts) = max_retries + 1

\* C14 witness: send_screenshot has returned after a success at its third
\* attempt.
C14_Witness ==
    /\ variant = "script"
    /\ pc = "done" /\ outcome = "delivered"
    /\ Len(FreshPosts) = 3
    /\ FreshPosts[1].slept /\ FreshPosts[2].slept /\ ~FreshPosts[3].slept

\* C15 (as claimed): in a turn of the driver's loop whose capture or encoding
\* failed nothing else happens: no file of that image is in the spool, no
\* local copy is written, no drain pass is begun and no upload is made.
C15_CaptureFailureSkips ==
    outcome = "capture_failed"
    => /\ pc = "done"
       /\ caller \notin {"job", "loop"}
       /\ FreshPosts = <<>>
       /\ local_copy = "none"
       /\ timestamp \notin TsOf(spool)
       /\ last.ts # timestamp

\* C15 witness: in such a turn a spooled file has been uploaded and removed.
C15_Witness ==
    /\ outcome = "capture_failed"
    /\ pc = "drain" /\ caller = "loop"
    /\ last.op = "remove"
    /\ \E i \in 1..Len(posts) : posts[i].ok /\ posts[i].ts = last.ts

\* C16 (as claimed): a cycle whose local copy could not be written still goes
\* on to the probe and ends with its image delivered or handed to the spool,
\* as a cycle without local copy does.
C16_LocalCopyIndependent ==
    (pc = "done" /\ local_copy = "failed")
    => outcome \in {"delivered", "spooled_unreachable", "spooled_failed", "lost"}

\* C16 witness: a cycle has ended after its local copy failed, with its image
\* neither uploaded nor spooled.
C16_Witness ==
    /\ pc = "done" /\ local_copy = "failed"
    /\ outcome = "copy_failed"
    /\ FreshPosts = <<>>
    /\ timestamp \notin TsOf(spool)

\* C17 (as claimed): whenever the health request of a probe of the script does
\* not come back with status 200 (another status such as 404, or an error),
\* the probe goes on to the request against the upload endpoint.
C17_FallbackOnHealthError ==
    (variant = "script" /\ probe # NoProbe /\ probe.first # "200")
    => probe.second # "none"

\* C17 witness: a cycle has spooled its image after a probe that got 404 from
\* the health URL and did not try the upload endpoint.
C17_Witness ==
    /\ variant = "script"
    /\ pc = "done" /\ outcome = "spooled_unreachable"
    /\ probe.first = "404" /\ probe.second = "none" /\ probe.result = "False"

\* The outcome of the last request a probe made.
LastRequest(p) == IF p.second # "none" THEN p.second ELSE p.first

\* C18 (as claimed): every probe returns a boolean, and returns False when its
\* last request ended in a connection error, a timeout or another exception.
C18_ProbeNeverRaises ==
    probe # NoProbe
    => /\ probe.result \in {"True", "False"}
       /\ LastRequest(probe) \in {"ConnectionError", "Timeout", "Exception"}
            => probe.result = "False"

\* C18 witness: the periodic probe of the script has raised and ended the
\* process.
C18_Witness ==
    /\ variant = "script"
    /\ pc = "crashed"
    /\ probe.first = "Exception" /\ probe.result = "raise"
    /\ ~initial

\* C19 (as claimed): an upload is taken as a success only when it was answered
\* with status 200 and a body that says the image was accepted.
C19_SuccessNeedsAcceptance ==
    \A i \in 1..Len(posts) : posts[i].ok => posts[i].accepted

\* C19 witness: a cycle has ended as delivered, its image not spooled, on an
\* answer with status 200 whose body did not say ok.
C19_Witness ==
    /\ pc = "done" /\ outcome = "delivered"
    /\ FreshPosts # <<>>
    /\ FreshPosts[Len(FreshPosts)].ok /\ ~FreshPosts[Len(FreshPosts)].accepted
    /\ timestamp \notin TsOf(spool)

\* C20 (as claimed): the timestamp field of every upload of an image, fresh or
\* from the spool, is the capture time of that image.
C20_TimestampIsCaptureTime ==
    \A i \in 1..Len(posts) : posts[i].sent = posts[i].ts

\* C20 witness: an image was uploaded with a timestamp field other than its
\* capture time and is now in the spool under its capture time.
C20_Witness ==
    /\ pc = "done" /\ outcome = "spooled_failed"
    /\ FreshPosts # <<>>
    /\ FreshPosts[1].sent # timestamp
    /\ timestamp \in TsOf(spool)

\* C21: the next capture is due at lastFireTime + interval, so that the k-th
\* capture of the loop is due at start + k * interval and lateness does not
\* add up: after k captures last_execution_time is start_time + k * interval.
C21_FixedSchedule ==
    tpc = "loop" => last_execution_time = start_time + fired * interval_seconds

\* A capture was fired later than it was due, and the next one is counted
\* from the time it was fired.
C21_Witness ==
    /\ tpc = "loop"
    /\ fired = 2
    /\ last_execution_time > start_time + fired * interval_seconds

\* C22: every run of the sweeper calls sweepExpired and then, when the spool
\* is not empty and the probe finds the server reachable, makes a drain pass:
\* the step after a sweep that left files probes the server, and begins a
\* drain pass when the probe's result is True.
C22_SweepThenDrain ==
    [][pc = "swept" /\ spool # {} =>
          /\ probe' # NoProbe
          /\ (probe'.result = "True" => pc' = "drain")]_vars

\* A sweep has just run and the spool holds a file.
C22_Witness == pc = "swept" /\ spool # {} /\ variant = "package"

\* The files that leave the spool in a step.
Leaving == spool \ spool'

\* The files whose upload the server accepted in this step.
AcceptedNow ==
    IF Len(posts') = Len(posts) + 1
    THEN LET q == posts'[Len(posts')] IN
            IF q.accepted /\ ~q.fresh THEN {f \in spool : f.ts = q.ts} ELSE {}
    ELSE {}

BegunSinceStop ==
    (now - stopped_at.now)
    + (IF Len(posts) > stopped_at.posts THEN Len(posts) - stopped_at.posts ELSE 0)

\* C24: after the stop signal is set no new capture and no new delivery
\* attempt (fresh upload, retry, drain upload of a further file) is started;
\* only the step in flight when the signal came is completed: at most one
\* capture or POST is begun after the signal.
C24_NothingNewAfterStop == shutdown_requested => BegunSinceStop <= 1

\* The signal came before the first POST of a drain pass of the script, and
\* the pass has gone on to the end of its listing with two POSTs or more.
C24_Witness ==
    /\ variant = "script"
    /\ shutdown_requested
    /\ pc = "drain"
    /\ idx > Len(pending)
    /\ stopped_at.posts = 0
    /\ Len(posts) >= 2

\* The thread is inside the body of a store operation.
Executing(t) == thr[t].step \in {"in", "write"}

\* C25: the mutating store operations (save_image, remove_image or
\* remove_file, cleanup_old_files, clear_all) are mutually exclusive: under no
\* interleaving of the two threads are both inside the body of one.
C25_MutatorsExclusive ==
    \A a, b \in Threads :
        (a # b /\ Executing(a) /\ Executing(b))
            => ~(thr[a].op \in Mutating /\ thr[b].op \in Mutating)

\* Both threads are inside save_image: no file of that name yet, and both are
\* about to write it.
C25_Witness ==
    /\ \A t \in Threads : thr[t].op = "save_image" /\ Executing(t)
    /\ spool = {}

\* C26: every store operation, the read-only ones included, runs inside the
\* store's one critical section: no thread is inside get_file_count or a
\* listing while another is part-way through a put, a remove, a sweep or a
\* clear.
C26_ReadersExcluded ==
    \A a, b \in Threads :
        (a # b /\ Executing(a) /\ Executing(b))
            => ~(thr[a].op \in Reading /\ thr[b].op \in Mutating)

\* The script's save_image has evicted the oldest file and not yet written the
\* new one, holding the lock, while the other thread is inside get_file_count.
C26_Witness ==
    /\ variant = "script"
    /\ thr["driver"].op = "save_image"
    /\ thr["driver"].step = "write"
    /\ lock = "driver"
    /\ get_file_count(spool) = max_files - 1
    /\ thr["control"].op = "get_file_count"
    /\ thr["control"].step = "in"

\* C27: no error in the steady-state loop is fatal: whatever capture, encode,
\* probe, delivery, spool write, eviction, listing or sweep come to in a turn
\* of the loop, the loop does not end.
C27_LoopSurvivesErrors == ~(pc = "crashed" /\ ~initial)

\* The loop has ended on an exception after its first cycle was over.
C27_Witness == pc = "crashed" /\ ~initial /\ probe.result = "raise"

\* C28: a put whose write fails reports the failure to its caller as a result,
\* not as an exception, and the driver goes on: the step in which the image
\* is lost ends the cycle with the put recorded as failed.
C28_WriteFailureReported ==
    [][outcome' = "lost" /\ outcome # "lost" =>
          /\ pc' = "done"
          /\ last'.op = "put"
          /\ ~last'.ok]_vars

\* The write of the package's save_image has failed.
C28_Witness == variant = "package" /\ outcome = "lost"

\* The step in which thread t's remove_image or remove_file runs and returns.
RemoveStep(t) ==
    /\ thr[t].op \in {"remove_image", "remove_file"}
    /\ thr[t].step = "in"
    /\ thr'[t].step = "idle"

\* C29 (as stated): remove is idempotent and total: removing a file that is
\* not in the store returns false and leaves the store as it is; removing one
\* that is there returns true and the file is gone (so a second remove of it
\* returns false).
C29_RemoveTotal ==
    [][\A t \in Threads : RemoveStep(t) =>
          LET f == thr[t].arg IN
              /\ thr'[t].result = IF f \in spool THEN "True" ELSE "False"
              /\ f \notin spool'
              /\ f \notin spool => spool' = spool]_vars

\* C29 (amended): remove never raises; it returns true exactly when the file
\* was there and its deletion succeeded, and then the file is gone and nothing
\* else has changed; in every other case it returns false and leaves the
\* store as it is.
C29_RemoveTotalWhenUnlinked ==
    [][\A t \in Threads : RemoveStep(t) =>
          LET f == thr[t].arg IN
              /\ thr'[t].result \in {"True", "False"}
              /\ thr'[t].result = "True" <=> (f \in spool /\ f \notin spool')
              /\ thr'[t].result = "True" => spool' = spool \ {f}
              /\ thr'[t].result = "False" => spool' = spool]_vars

\* One thread's remove of a file has returned True and the other thread's
\* remove of the same file False.
C29_Witness ==
    /\ \A t \in Threads : thr[t].op \in {"remove_image", "remove_file"} /\ thr[t].step = "idle"
    /\ thr["driver"].arg = thr["control"].arg
    /\ thr["driver"].result = "True"
    /\ thr["control"].result = "False"
    /\ thr["driver"].arg \in spool0
    /\ thr["driver"].arg \notin spool

\* C30: put never blocks for ever: under any interleaving with the other
\* thread's store operations every call of save_image gets the lock and
\* returns.
C30_PutReturns ==
    /\ (thr["driver"].op = "save_image" /\ thr["driver"].step = "call")
           ~> (thr["driver"].op = "save_image" /\ thr["driver"].step = "idle")
    /\ (thr["control"].op = "save_image" /\ thr["control"].step = "call")
           ~> (thr["control"].op = "save_image" /\ thr["control"].step = "idle")

\* A save_image that had to wait for the lock: the other thread is inside
\* cleanup_old_files with the lock held, and this one's call has not got it yet.
C30_Witness ==
    /\ variant = "script"
    /\ thr["control"].op = "save_image"
    /\ thr["control"].step = "call"
    /\ lock = "driver"
    /\ thr["driver"].op = "cleanup_old_files"

\* C31: a spooled file leaves the store only by a remove after a delivery of
\* that file which the collector acknowledged as success, by the eviction of
\* a put, by a retention sweep (or by an explicit clear, which the driver
\* never calls); a drain pass never removes a file whose upload failed or was
\* not attempted.
C31_LeavesOnlyWhenAllowed ==
    [][Leaving # {} =>
          \/ pc = "drain" /\ Leaving \subseteq AcceptedNow
          \/ pc \in {"probe", "send"} /\ pc' = "done" /\ last'.op = "put"
          \/ pc = "idle" /\ pc' = "swept" /\ last'.op = "sweep"]_vars

\* A drain pass has removed a file after a POST that was answered 200 with a
\* body that does not say ok.
C31_Witness ==
    /\ pc = "drain"
    /\ posts # <<>>
    /\ LET q == posts[Len(posts)] IN
        /\ ~q.fresh
        /\ q.ok
        /\ ~q.accepted
        /\ last.op = "remove"
        /\ last.ts = q.ts
        /\ q.ts \notin TsOf(spool)

\* C32: round trip through the name of a spool file: for every timestamp and
\* every source, a source with an underscore included, the timestamp and the
\* source that the drain reads from the name written by save_image are the
\* ones that were passed to save_image.
C32_NameRoundTrip == npc = "sent" => data = put_args

\* The drain has read the name of a file whose source has an underscore, and
\* sends another source than the one the file was put with.
C32_Witness ==
    /\ npc = "sent"
    /\ contains(put_args.source, "_")
    /\ data.source # put_args.source
    /\ data.timestamp # put_args.timestamp

\* The outcomes of a request that are HTTP statuses.
IsStatus(o) == o \in {"200", "404", "405", "500"}

\* C33: when the fallback probe against the upload endpoint is made, an answer
\* 405 (method not allowed), like a 200, makes the probe return true, and
\* every other status makes it return false.
C33_FallbackStatuses ==
    (probe.second # "none" /\ IsStatus(probe.second)) =>
        probe.result = (IF probe.second \in {"200", "405"} THEN "True" ELSE "False")

\* The health request failed, the HEAD request was answered 405, and the cycle
\* has gone on to upload its image.
C33_Witness ==
    /\ variant = "script"
    /\ pc = "send"
    /\ RequestException(probe.first)
    /\ probe.second = "405"
    /\ probe.result = "True"

\* C35: a put that fails leaves the store unchanged: when save_image returns
\* failure or raises, the spool holds the same files as before the call, also
\* when the store was at capacity before the call.
C35_FailedPutKeepsStore ==
    [][(outcome # "lost" /\ outcome' = "lost") => spool' = spool]_vars

\* A put into a full store has failed, and the store holds fewer files than
\* the put found.
C35_Witness ==
    /\ variant = "script"
    /\ pc = "done"
    /\ outcome = "lost"
    /\ last.op = "put" /\ ~last.ok /\ last.full
    /\ get_file_count(spool) < last.n

\* The image of this cycle was delivered: the collector accepted an upload of it.
DeliveredFresh == \E i \in 1..Len(posts) : posts[i].fresh /\ posts[i].accepted

\* How many of the given conditions hold.
HowMany(conds) == Cardinality({i \in 1..Len(conds) : conds[i]})

\* C36: every captured image ends its cycle in exactly one of three ways:
\* delivered (the collector acknowledged it), present in the spool, or reported
\* lost by a log entry at error level; never delivered and spooled both, never
\* dropped without one of the three.
C36_DeliveredSpooledOrReported ==
    (pc \in {"done", "crashed"} /\ outcome \notin {"none", "capture_failed"}) =>
        HowMany(<<DeliveredFresh, timestamp \in TsOf(spool), error_logged>>) = 1

\* A cycle of the script has ended with its image not acknowledged, not in the
\* spool and no error logged.
C36_Witness ==
    /\ variant = "script"
    /\ pc = "done"
    /\ outcome = "delivered"
    /\ ~DeliveredFresh
    /\ timestamp \notin TsOf(spool)
    /\ ~error_logged

\* C37: a retention sweep removes only expired files: every file whose age is
\* at most retention_hours before the sweep is in the store after it, however
\* many files the store holds.
C37_SweepRemovesOnlyExpired ==
    [][(pc = "idle" /\ pc' = "swept") =>
          \A f \in spool : ~expired(f, now) => f \in spool']_vars

\* A sweep has removed files although no file is expired: the files of the
\* last session, the oldest there are, are all within the retention time.
C37_Witness ==
    /\ variant = "package"
    /\ pc = "swept"
    /\ last.op = "sweep"
    /\ get_file_count(spool) < last.n
    /\ Cardinality(spool0) = PrevFiles
    /\ \A f \in spool0 : ~expired(f, now)

\* C38: at most one driver worker loop is active per window at any time: under
\* any sequence of start, stop and worker-exit events no second worker thread
\* is started while an earlier worker has not left its loop and returned.
C38_OneWorker == Cardinality(Alive) <= 1

\* The window has started a second worker after the first was stopped and
\* returned, and the second is in its loop.
C38_Witness ==
    /\ wpc[1] = "exited"
    /\ 1 \in stopped
    /\ wpc[2] = "turn"
    /\ is_running

\* C34: cooperative shutdown is never lost: under any interleaving of the stop
\* request of the control thread with the start-up and the loop of the worker
\* thread, once stop has been requested on a started client the worker's loop
\* is eventually left.
C34_StopNeverLost ==
    \A w \in Workers : (w \in stopped) ~> (wpc[w] \in {"finally", "exited"})

\* stop_client took effect while the worker was starting up, and the worker is
\* in its loop with is_running set and the stop event clear.
C34_Witness ==
    /\ variant = "package"
    /\ ~is_running
    /\ \E w \in stopped :
        /\ wpc[w] = "turn"
        /\ clients[w].is_running
        /\ ~clients[w].stop_event

\* The place of the snapshot the pass is at holds a file that is gone.
AtRemovedFile == idx <= Len(pending) /\ pending[idx] \notin spool

\* The driver takes a step of its drain pass: it makes a POST or moves on in
\* the snapshot.
DrainStep ==
    /\ pc = "drain"
    /\ idx <= Len(pending)
    /\ posts' # posts \/ idx' # idx

\* C39: a drain pass works on the snapshot taken at its start and terminates:
\* it makes at most one pass over the snapshot (every attempt is on the file
\* at its place in the snapshot and moves the place on), never attempts a
\* file put after the snapshot, and skips without a POST a file of the
\* snapshot that was removed meanwhile, the driver going on; and the pass
\* comes to its end.
C39_DrainOverSnapshot ==
    /\ [][DrainStep =>
            /\ pc' = "drain"
            /\ pending' = pending
            /\ idx' > idx
            /\ posts' # posts =>
                /\ Len(posts') = Len(posts) + 1
                /\ posts'[Len(posts')].ts = pending[idx].ts
                /\ pending[idx] \in spool
            /\ AtRemovedFile => posts' = posts /\ spool' = spool]_vars
    /\ (pc = "drain") ~> (pc \notin {"drain", "crashed"})

\* The first file of the snapshot was removed by the other thread; the pass
\* has gone past it without a POST and is at the second file, which is there.
C39_Witness ==
    /\ variant = "script"
    /\ pc = "drain"
    /\ thr["control"].op = "clear_all"
    /\ Len(pending) = 2
    /\ idx = 2
    /\ posts = <<>>
    /\ pending[1] \notin spool
    /\ pending[2] \in spool

\* C40: on start-up, when the spool holds files of a previous session and the
\* probe reports reachable, a drain pass over those files is made before the
\* first capture; when the probe reports unreachable, no upload is attempted
\* and the spooled files are kept as they are.
C40_StartUpDrain ==
    /\ [][pc = "start" =>
            /\ (spool # {} /\ probe'.result = "True") =>
                /\ pc' = "drain"
                /\ caller' = "start"
                /\ {pending'[i] : i \in 1..Len(pending')} = spool
                /\ now' = now
            /\ probe'.result = "False" =>
                /\ pc' = "job"
                /\ posts' = <<>>
                /\ spool' = spool]_vars
    /\ [][(now = PrevFiles /\ now' # now) =>
            /\ pc = "job"
            /\ caller = "start" => idx > Len(pending)]_vars

\* The start-up drain has uploaded a file of the previous session, and no
\* capture has been made yet.
C40_Witness ==
    /\ pc = "drain"
    /\ caller = "start"
    /\ now = PrevFiles
    /\ posts # <<>>
    /\ idx > Len(pending)
    /\ spool # spool0

====
